---- MODULE Spec2Model ----
(***************************************************************************)
(* Model of Applications/src/aggregate-images.cc (MIRTK aggregate-images). *)
(*                                                                         *)
(* Voxel values are exact extended rationals: a finite value n/d is the    *)
(* pair <<n, d>> in lowest terms with d > 0; NaN is <<0, 0>>, +inf is      *)
(* <<1, 0>> and -inf is <<-1, 0>>.  Results of sqrt and log that are not   *)
(* rational are kept as terms, tuples of length 3 whose first element is   *)
(* a string.  Rounding of float and double is not modelled.                *)
(***************************************************************************)
EXTENDS Integers, Sequences, FiniteSets, TLC

\* ---------------------------------------------------------------- bounds
NumImages == 2
NVox == 2
NumWorkers == 2

\* ------------------------------------------------------- extended numbers
NaN == <<0, 0>>
PInf == <<1, 0>>
NInf == <<-1, 0>>
Zero == <<0, 1>>
One == <<1, 1>>

Int2Num(k) == <<k, 1>>

IsTerm(x) == Len(x) = 3

IsNaN(x) == Len(x) = 2 /\ x = NaN

IsInf(x) == Len(x) = 2 /\ x[2] = 0 /\ x[1] # 0

IsFinite(x) == Len(x) = 2 /\ x[2] # 0

Abs(k) == IF k < 0 THEN -k ELSE k

Sign(k) == IF k < 0 THEN -1 ELSE IF k > 0 THEN 1 ELSE 0

RECURSIVE GCD(_, _)
GCD(a, b) == IF b = 0 THEN a ELSE GCD(b, a % b)

\* n/d in lowest terms; a zero denominator gives NaN or a signed infinity
Norm(n, d) ==
  IF d = 0 THEN <<Sign(n), 0>>
  ELSE LET s == IF d < 0 THEN -1 ELSE 1
           g == GCD(Abs(n), Abs(d))
       IN <<(s * n) \div g, (s * d) \div g>>

Neg(a) == <<-a[1], a[2]>>

\* a + b (IEEE: inf + -inf = NaN, NaN absorbs)
Add(a, b) ==
  IF a[2] = 0 \/ b[2] = 0
  THEN IF a = NaN \/ b = NaN THEN NaN
       ELSE IF a[2] = 0 /\ b[2] = 0 THEN (IF a = b THEN a ELSE NaN)
       ELSE IF a[2] = 0 THEN a ELSE b
  ELSE LET g == GCD(a[2], b[2])
           l == (a[2] \div g) * b[2]
       IN Norm(a[1] * (l \div a[2]) + b[1] * (l \div b[2]), l)

Sub(a, b) == Add(a, Neg(b))

\* a * b (IEEE: inf * 0 = NaN)
Mul(a, b) ==
  IF a[2] = 0 \/ b[2] = 0
  THEN <<Sign(a[1]) * Sign(b[1]), 0>>
  ELSE LET g1 == GCD(Abs(a[1]), b[2])
           g2 == GCD(Abs(b[1]), a[2])
       IN Norm((a[1] \div g1) * (b[1] \div g2), (a[2] \div g2) * (b[2] \div g1))

\* 1 / a (IEEE: 1/0 = +inf, 1/inf = 0)
Recip(a) ==
  IF a = NaN THEN NaN
  ELSE IF a[2] = 0 THEN Zero
  ELSE IF a[1] = 0 THEN PInf
  ELSE IF a[1] < 0 THEN <<-a[2], -a[1]>> ELSE <<a[2], a[1]>>

\* a / b (IEEE: 0/0 = NaN, inf/inf = NaN)
Div(a, b) ==
  IF a[2] = 0 /\ b[2] = 0 THEN NaN ELSE Mul(a, Recip(b))

\* a < b; false when either side is NaN
Less(a, b) ==
  IF a = NaN \/ b = NaN THEN FALSE
  ELSE IF a[2] = 0 \/ b[2] = 0
  THEN (IF a[2] = 0 /\ b[2] = 0 THEN a[1] < b[1]
        ELSE IF a[2] = 0 THEN a[1] < 0 ELSE b[1] > 0)
  ELSE LET g == GCD(a[2], b[2])
       IN a[1] * (b[2] \div g) < b[1] * (a[2] \div g)

\* a == b of C++; false when either side is NaN
Eq(a, b) == a # NaN /\ b # NaN /\ a = b

LessEq(a, b) == Less(a, b) \/ Eq(a, b)

\* fequal(a, b): equality up to a tolerance of 1e-12, which is below the
\* resolution of every value of the model; false for NaN, infinities, terms
FEqual(a, b) == IsFinite(a) /\ IsFinite(b) /\ a = b

\* sqrt(x); an irrational root is kept as a term
Sqrt(x) ==
  IF x = NaN THEN NaN
  ELSE IF x = PInf THEN PInf
  ELSE IF Less(x, Zero) THEN NaN
  ELSE IF x = Zero THEN Zero
  ELSE IF x = One THEN One
  ELSE <<"sqrt", x, 0>>

RECURSIVE Pow(_, _)
Pow(p, k) == IF k = 0 THEN One ELSE Mul(p, Pow(p, k - 1))

\* ------------------------------------------------------------- sequences
RECURSIVE SumSeq(_)
SumSeq(s) == IF s = <<>> THEN Zero ELSE Add(Head(s), SumSeq(Tail(s)))

\* std::min_element: first smallest element under operator<
RECURSIVE MinFrom(_, _)
MinFrom(m, s) ==
  IF s = <<>> THEN m
  ELSE MinFrom(IF Less(Head(s), m) THEN Head(s) ELSE m, Tail(s))

MinElement(s) == MinFrom(Head(s), Tail(s))

\* std::minmax_element: last largest element under operator<
RECURSIVE MaxFrom(_, _)
MaxFrom(m, s) ==
  IF s = <<>> THEN m
  ELSE MaxFrom(IF Less(Head(s), m) THEN m ELSE Head(s), Tail(s))

MaxElement(s) == MaxFrom(Head(s), Tail(s))

RECURSIVE Insert(_, _)
Insert(x, s) ==
  IF s = <<>> THEN <<x>>
  ELSE IF Less(x, Head(s)) THEN <<x>> \o s
  ELSE <<Head(s)>> \o Insert(x, Tail(s))

\* Sort(samples): ascending under operator<
RECURSIVE Sort(_)
Sort(s) == IF s = <<>> THEN <<>> ELSE Insert(s[Len(s)], Sort(SubSeq(s, 1, Len(s) - 1)))

\* the elements of data whose mask entry is set, in order
RECURSIVE Masked(_, _)
Masked(data, mask) ==
  IF data = <<>> THEN <<>>
  ELSE (IF Head(mask) THEN <<Head(data)>> ELSE <<>>) \o Masked(Tail(data), Tail(mask))

\* ------------------------------------- elementary statistics (library)
MeanOf(s) == IF s = <<>> THEN Zero ELSE Div(SumSeq(s), Int2Num(Len(s)))

MedianOf(s) == IF s = <<>> THEN Zero ELSE Sort(s)[(Len(s) \div 2) + 1]

VarOf(s) ==
  IF Len(s) < 2 THEN Zero
  ELSE LET m == MeanOf(s)
           sq == [i \in 1..Len(s) |-> Mul(Sub(s[i], m), Sub(s[i], m))]
       IN Div(SumSeq(sq), Int2Num(Len(s) - 1))

StDevOf(s) == Sqrt(VarOf(s))

\* --------------------------------------------------- image container (library)
\* BaseImage::IsBackground with a background value set
IsBackground(v, bg) == Eq(v, bg) \/ (IsNaN(v) /\ IsNaN(bg))

IsForeground(v, bg) == ~IsBackground(v, bg)

\* GetMinMax: minimum over the foreground voxels, scanning from the first one
RECURSIVE ScanMin(_, _, _, _)
ScanMin(img, bg, first, m) ==
  IF img = <<>> THEN m
  ELSE IF IsForeground(Head(img), bg)
       THEN ScanMin(Tail(img), bg, FALSE,
                    IF first \/ Less(Head(img), m) THEN Head(img) ELSE m)
       ELSE ScanMin(Tail(img), bg, first, m)

GetMin(img, bg) == ScanMin(img, bg, TRUE, Zero)

\* ------------------------------------------------------- program constants
\* 1e-6, the margin of the shift in GiniCoefficient and EntropyIndex
Eps == <<1, 1000000>>

\* 1e-3, the output background value of all modes but the mean and the
\* margin below the minimum in the final replacement of NaN
Milli == <<1, 1000>>

NormalizationModes ==
  {"Normalization_None", "Normalization_Mean", "Normalization_Median",
   "Normalization_ZScore", "Normalization_UnitRange"}

AggregationModes ==
  {"AM_Mean", "AM_Median", "AM_StDev", "AM_Gini", "AM_Theil",
   "AM_EntropyIndex", "AM_Entropy"}

\* ------------------------------------------------------------ Normalize
ForegroundMaskArray(img, bg) ==
  [i \in 1..Len(img) |-> ~IsNaN(img[i]) /\ IsForeground(img[i], bg)]

\* the pair <<s, t>> of the affine map v -> s * v + t
NormalizeMap(fg, nmode) ==
  CASE nmode = "Normalization_Mean" ->
         LET mean == MeanOf(fg)
         IN IF ~FEqual(mean, Zero) THEN <<Div(One, mean), Zero>> ELSE <<One, Zero>>
    [] nmode = "Normalization_Median" ->
         LET median == MedianOf(fg)
         IN IF ~FEqual(median, Zero) THEN <<Div(One, median), Zero>> ELSE <<One, Zero>>
    [] nmode = "Normalization_ZScore" ->
         LET mean == MeanOf(fg)
             sigma == StDevOf(fg)
         IN IF FEqual(sigma, Zero)
            THEN <<Div(One, sigma), Div(Neg(mean), sigma)>>
            ELSE <<One, Neg(mean)>>
    [] nmode = "Normalization_UnitRange" ->
         LET min_value == IF fg = <<>> THEN Zero ELSE MinElement(fg)
             max_value == IF fg = <<>> THEN Zero ELSE MaxElement(fg)
             range == Sub(max_value, min_value)
         IN IF ~FEqual(range, Zero)
            THEN <<Div(One, range), Div(Neg(min_value), range)>>
            ELSE <<One, Neg(min_value)>>
    [] OTHER -> <<One, Zero>>

Normalize(img, bg, nmode) ==
  IF nmode = "Normalization_None" THEN img
  ELSE LET mask == ForegroundMaskArray(img, bg)
           st == NormalizeMap(Masked(img, mask), nmode)
       IN IF st[1] # One \/ st[2] # Zero
          THEN [i \in 1..Len(img) |->
                  IF mask[i] THEN Add(Mul(st[1], img[i]), st[2]) ELSE img[i]]
          ELSE img

\* ------------------------------------------------ measures of dispersion
\* Magnitude from which a sample of type T = RealPixel (float, 24 bit
\* significand) absorbs 1e-6: the spacing of the floats in [32, 64) is 2^-18,
\* more than twice 1e-6, so x - 1e-6 rounds back to x.
FloatAbsorbLimit == 32

\* shift -= static_cast<T>(1e-6) for shift <= 0, rounded to T; the rounding
\* error of a difference that is not absorbed is not modelled
SubEps(shift) ==
  IF LessEq(shift, Int2Num(-FloatAbsorbLimit)) THEN shift ELSE Sub(shift, Eps)

\* the samples after the shift to positive values
ShiftSamples(samples) ==
  LET shift == MinElement(samples)
  IN IF LessEq(shift, Zero)
     THEN [i \in 1..Len(samples) |-> Sub(samples[i], SubEps(shift))]
     ELSE samples

\* the array GiniCoefficient leaves behind: shifted and sorted
GiniSamples(samples) == Sort(ShiftSamples(samples))

GiniCoefficient(samples) ==
  LET n == Len(samples)
      sorted == GiniSamples(samples)
      sum1 == SumSeq([i \in 1..n |-> Mul(Int2Num(2 * (i - 1) - n + 1), sorted[i])])
      sum2 == SumSeq(sorted)
  IN Div(sum1, Mul(Int2Num(n), sum2))

\* sum of log terms over the ratios p; log(1) = 0, any other sum is a term
LogTerm(name, p) ==
  IF \E i \in 1..Len(p) : ~IsFinite(p[i]) \/ ~Less(Zero, p[i]) THEN NaN
  ELSE IF \A i \in 1..Len(p) : p[i] = One THEN Zero
  ELSE <<name, p, Len(p)>>

\* the value EntropyIndex returns for alpha >= 0
EntropyIndex(samples, alpha) ==
  LET n == Len(samples)
  IN IF n = 0 THEN Zero
     ELSE LET shifted == ShiftSamples(samples)
              mean == Div(SumSeq(shifted), Int2Num(n))
              p == [i \in 1..n |-> Div(shifted[i], mean)]
          IN CASE alpha = 0 -> LogTerm("mld", p)
               [] alpha = 1 -> LogTerm("theil", p)
               [] alpha = 2 ->
                    \* sum(x * x) / (mean * mean), evaluated as sum((x / mean)^2):
                    \* the same extended rational, NaN and infinities
                    \* included, within the integer range of the checker
                    LET s1 == SumSeq([i \in 1..n |-> Mul(p[i], p[i])])
                        s2 == Sub(s1, Int2Num(n))
                        s3 == Div(s2, Int2Num(2))
                    IN Div(s3, Int2Num(n))
               [] OTHER ->
                    LET s1 == SumSeq([i \in 1..n |-> Pow(p[i], alpha)])
                        s2 == Sub(s1, Int2Num(n))
                        s3 == Div(s2, Int2Num(alpha * (alpha - 1)))
                    IN Div(s3, Int2Num(n))

\* Shannon entropy of the histogram of the samples (Histogram1D, library)
ShannonEntropy(values) ==
  LET lo == MinElement(values)
      hi == MaxElement(values)
  IN IF Less(hi, lo) \/ Eq(lo, hi) THEN Zero ELSE <<"entropy", values, 0>>

\* ------------------------------------------------- aggregation functions
\* eval._Function: the value returned, the array left behind, and whether
\* the call throws instead of returning
Function(m, alpha, values) ==
  CASE m = "AM_Mean" ->
         [val |-> MeanOf(values), arr |-> values, throws |-> FALSE]
    [] m = "AM_Median" ->
         [val |-> MedianOf(values), arr |-> values, throws |-> FALSE]
    [] m = "AM_StDev" ->
         [val |-> StDevOf(values), arr |-> values, throws |-> FALSE]
    [] m = "AM_Gini" ->
         [val |-> GiniCoefficient(values), arr |-> GiniSamples(values),
          throws |-> FALSE]
    [] m = "AM_Theil" ->
         [val |-> EntropyIndex(values, 1), arr |-> ShiftSamples(values),
          throws |-> FALSE]
    [] m = "AM_EntropyIndex" ->
         IF alpha < 0
         THEN [val |-> NaN, arr |-> values, throws |-> TRUE]
         ELSE [val |-> EntropyIndex(values, alpha), arr |-> ShiftSamples(values),
               throws |-> FALSE]
    [] m = "AM_Entropy" ->
         [val |-> ShannonEntropy(values), arr |-> values, throws |-> FALSE]

\* ------------------------------------------------------ output image
\* operator< on output values; roots are compared by their radicands.  Sums
\* of logarithms are never compared: they are never NaN, so an output image
\* that holds them has no voxel to replace and its minimum is not used.
LessT(a, b) ==
  IF ~IsTerm(a) /\ ~IsTerm(b) THEN Less(a, b)
  ELSE CASE IsTerm(a) /\ IsTerm(b) /\ a[1] = "sqrt" /\ b[1] = "sqrt" -> Less(a[2], b[2])
         [] IsTerm(a) /\ ~IsTerm(b) /\ a[1] = "sqrt" ->
              b # NaN /\ Less(Zero, b) /\ Less(a[2], Mul(b, b))
         [] ~IsTerm(a) /\ IsTerm(b) /\ b[1] = "sqrt" ->
              a # NaN /\ (Less(a, Zero) \/ Less(Mul(a, a), b[2]))

\* a - b on output values
SubT(a, b) == IF IsTerm(a) THEN <<"minus", a, b>> ELSE Sub(a, b)

\* GenericImage<OutputType>::GetMinMax, the minimum
RECURSIVE ScanMinT(_, _, _, _)
ScanMinT(img, bg, first, m) ==
  IF img = <<>> THEN m
  ELSE IF IsForeground(Head(img), bg)
       THEN ScanMinT(Tail(img), bg, FALSE,
                     IF first \/ LessT(Head(img), m) THEN Head(img) ELSE m)
       ELSE ScanMinT(Tail(img), bg, first, m)

GetMinT(img, bg) == ScanMinT(img, bg, TRUE, Zero)

\* ------------------------------------------------------------------ state
VARIABLES
  pc,             \* position of main
  mode,           \* aggregation mode
  normalization,  \* normalization mode
  alpha,          \* -alpha
  padding,        \* -padding, NaN when not given
  intersection,   \* -intersection
  input,          \* the images as read from the files
  images,         \* the input images
  imgBg,          \* background value of the input images
  output,         \* the output image
  outBg,          \* background value of the output image
  range,          \* range[w]: voxel range <<begin, end>> of worker w
  vox,            \* vox[w]: current voxel of worker w
  values,         \* values[w]: sample array of worker w
  wpc,            \* wpc[w]: position of worker w
  calls           \* calls[v]: the calls of the aggregation function for voxel v

vars == <<pc, mode, normalization, alpha, padding, intersection, input, images,
          imgBg, output, outBg, range, vox, values, wpc, calls>>

config == <<mode, normalization, alpha, padding, intersection, input>>

Images == 1..NumImages
Voxels == 1..NVox
Workers == 1..NumWorkers

\* voxel v of image i holds 0 or the intensity Intensity(i, v)
Intensity(i, v) == Int2Num(((i + v) % 3) + 1)
InputImages ==
  {[i \in Images |-> [v \in Voxels |-> IF b[i][v] THEN Intensity(i, v) ELSE Zero]] :
     b \in [Images -> [Voxels -> BOOLEAN]]}
PaddingValues == {NaN, Zero}
AlphaValues == {-1, 0, 1}

DispersionModes == {"AM_Gini", "AM_Theil", "AM_EntropyIndex"}

\* the state after the arguments are parsed and the images are read
InitState ==
  /\ pc = "read"
  /\ padding \in PaddingValues
  /\ intersection \in (IF IsNaN(padding) THEN {FALSE} ELSE BOOLEAN)
  /\ input \in InputImages
  /\ images = input
  /\ imgBg = NaN
  /\ output = [v \in Voxels |-> Zero]
  /\ outBg = Zero
  /\ range = [w \in Workers |-> <<0, 0>>]
  /\ vox = [w \in Workers |-> 0]
  /\ values = [w \in Workers |-> <<>>]
  /\ wpc = [w \in Workers |-> "idle"]
  /\ calls = [v \in Voxels |-> <<>>]

\* runs without normalization, every aggregation mode
Init ==
  /\ mode \in AggregationModes
  /\ normalization = "Normalization_None"
  /\ alpha \in (IF mode = "AM_EntropyIndex" THEN AlphaValues ELSE {0})
  /\ InitState

\* runs with normalization
InitNorm ==
  /\ mode \in {"AM_Mean", "AM_Median", "AM_Gini"}
  /\ normalization \in NormalizationModes \ {"Normalization_None"}
  /\ alpha = 0
  /\ InitState

\* ------------------------------------------------------------------- main
\* the voxel after the replacement of the padding value by NaN
PadVoxel(v, pad) == IF ~IsNaN(pad) /\ Eq(v, pad) THEN NaN ELSE v

ReplacePadding ==
  /\ pc = "read"
  /\ images' = [i \in Images |-> [v \in Voxels |-> PadVoxel(images[i][v], padding)]]
  /\ imgBg' = NaN
  /\ pc' = "padded"
  /\ UNCHANGED <<config, output, outBg, range, vox, values, wpc, calls>>

NormalizeImages ==
  /\ pc = "padded"
  /\ images' = [i \in Images |-> Normalize(images[i], imgBg, normalization)]
  /\ pc' = "normalized"
  /\ UNCHANGED <<config, imgBg, output, outBg, range, vox, values, wpc, calls>>

\* the minimum over all images, starting from inf
RECURSIVE GlobalMin(_, _, _)
GlobalMin(imgs, bg, m) ==
  IF imgs = <<>> THEN m
  ELSE LET vmin == GetMin(Head(imgs), bg)
       IN GlobalMin(Tail(imgs), bg, IF Less(vmin, m) THEN vmin ELSE m)

\* faulty variant: the minimum itself is subtracted
ShiftOffsetNoMargin(m) == m

\* min_value -= 1
ShiftOffset(m) == Sub(m, One)

\* the voxel after the shift to positive values
ShiftVoxel(v, bg, min_value) ==
  IF IsForeground(v, bg) THEN Sub(v, min_value) ELSE Zero

ShiftPositive ==
  /\ pc = "normalized"
  /\ IF mode \in DispersionModes
     THEN LET m == GlobalMin(images, imgBg, PInf)
          IN IF IsInf(m)
             THEN /\ pc' = "error"
                  /\ UNCHANGED <<images, imgBg>>
             ELSE /\ images' = [i \in Images |-> [v \in Voxels |->
                                  ShiftVoxel(images[i][v], imgBg, ShiftOffset(m))]]
                  /\ imgBg' = Zero
                  /\ pc' = "shifted"
     ELSE /\ pc' = "shifted"
          /\ UNCHANGED <<images, imgBg>>
  /\ UNCHANGED <<config, output, outBg, range, vox, values, wpc, calls>>

\* background value of the output image
OutputBg(m) == IF m = "AM_Mean" THEN NaN ELSE Milli

\* faulty variant: background only where every image is background
IntersectionVoxelAll(imgs, ibg, v, bg) ==
  IF \A i \in Images : IsBackground(imgs[i][v], ibg) THEN bg ELSE Zero

\* faulty variant: foreground only where every image is foreground
UnionVoxelAll(imgs, ibg, v, bg) ==
  IF \A i \in Images : IsForeground(imgs[i][v], ibg) THEN Zero ELSE bg

IntersectionVoxel(imgs, ibg, v, bg) ==
  IF \E i \in Images : IsBackground(imgs[i][v], ibg) THEN bg ELSE Zero

UnionVoxel(imgs, ibg, v, bg) ==
  IF \E i \in Images : IsForeground(imgs[i][v], ibg) THEN Zero ELSE bg

InitialOutput(imgs, ibg, pad, inter, bg) ==
  [v \in Voxels |->
     IF ~IsNaN(pad)
     THEN IF inter THEN IntersectionVoxel(imgs, ibg, v, bg)
                   ELSE UnionVoxel(imgs, ibg, v, bg)
     ELSE Zero]

\* the splits of blocked_range(0, nvox) into non-empty subranges, one for
\* each of the first k workers; the other workers get nothing to do
Partitions ==
  {r \in [Workers -> (0..NVox) \X (0..NVox)] :
     /\ r[1][1] = 0
     /\ r[NumWorkers][2] = NVox
     /\ \A w \in Workers : w < NumWorkers => r[w][2] = r[w + 1][1]
     /\ \A w \in Workers : r[w][1] < r[w][2] \/ (r[w][1] = NVox /\ r[w][2] = NVox)}

\* position of a worker that is about to test vox < voxels.end()
LoopPc(v, r) == IF v <= r[2] THEN "loop" ELSE "done"

InitOutput ==
  /\ pc = "shifted"
  /\ outBg' = OutputBg(mode)
  /\ output' = InitialOutput(images, imgBg, padding, intersection, OutputBg(mode))
  /\ \E r \in Partitions :
       /\ range' = r
       /\ vox' = [w \in Workers |-> r[w][1] + 1]
       /\ wpc' = [w \in Workers |-> LoopPc(r[w][1] + 1, r[w])]
  /\ values' = [w \in Workers |-> [i \in Images |-> Zero]]
  /\ pc' = "parallel"
  /\ UNCHANGED <<config, images, imgBg, calls>>

\* --------------------------------------------- AggregateValuesAtEachVoxel
\* faulty variant: the last entry of the sample array is not refreshed
GatherValuesButLast(old, imgs, v) ==
  [i \in Images |-> IF i < NumImages THEN imgs[i][v] ELSE old[i]]

\* values[i] = (*_Images)[i].Get(vox) for every image i
GatherValues(old, imgs, v) == [i \in Images |-> imgs[i][v]]

WorkerGather(w) ==
  /\ pc = "parallel"
  /\ wpc[w] = "loop"
  /\ IF IsForeground(output[vox[w]], outBg)
     THEN /\ values' = [values EXCEPT ![w] = GatherValues(values[w], images, vox[w])]
          /\ wpc' = [wpc EXCEPT ![w] = "call"]
          /\ vox' = vox
     ELSE /\ vox' = [vox EXCEPT ![w] = vox[w] + 1]
          /\ wpc' = [wpc EXCEPT ![w] = LoopPc(vox[w] + 1, range[w])]
          /\ values' = values
  /\ UNCHANGED <<pc, config, images, imgBg, output, outBg, range, calls>>

\* faulty variant: the sample array aliases the voxels of the images
WorkerCallInPlace(w) ==
  /\ pc = "parallel"
  /\ wpc[w] = "call"
  /\ LET r == Function(mode, alpha, values[w])
     IN /\ ~r.throws
        /\ output' = [output EXCEPT ![vox[w]] = r.val]
        /\ values' = [values EXCEPT ![w] = r.arr]
        /\ images' = [i \in Images |-> [images[i] EXCEPT ![vox[w]] = r.arr[i]]]
        /\ calls' = [calls EXCEPT ![vox[w]] =
                       Append(@, [worker |-> w, args |-> values[w], val |-> r.val])]
        /\ vox' = [vox EXCEPT ![w] = vox[w] + 1]
        /\ wpc' = [wpc EXCEPT ![w] = LoopPc(vox[w] + 1, range[w])]
  /\ UNCHANGED <<pc, config, imgBg, outBg, range>>

WorkerCall(w) ==
  /\ pc = "parallel"
  /\ wpc[w] = "call"
  /\ LET r == Function(mode, alpha, values[w])
     IN IF r.throws
        THEN /\ pc' = "error"
             /\ UNCHANGED <<output, values, vox, wpc, calls>>
        ELSE /\ output' = [output EXCEPT ![vox[w]] = r.val]
             /\ values' = [values EXCEPT ![w] = r.arr]
             /\ calls' = [calls EXCEPT ![vox[w]] =
                            Append(@, [worker |-> w, args |-> values[w], val |-> r.val])]
             /\ vox' = [vox EXCEPT ![w] = vox[w] + 1]
             /\ wpc' = [wpc EXCEPT ![w] = LoopPc(vox[w] + 1, range[w])]
             /\ pc' = pc
  /\ UNCHANGED <<config, images, imgBg, outBg, range>>

\* ---------------------------------------------------------- main, continued
ReplaceNaN ==
  /\ pc = "parallel"
  /\ \A w \in Workers : wpc[w] = "done"
  /\ LET omin == SubT(GetMinT(output, outBg), Milli)
     IN output' = [v \in Voxels |-> IF IsNaN(output[v]) THEN omin ELSE output[v]]
  /\ pc' = "replaced"
  /\ UNCHANGED <<config, images, imgBg, outBg, range, vox, values, wpc, calls>>

WriteOutput ==
  /\ pc = "replaced"
  /\ pc' = "written"
  /\ UNCHANGED <<config, images, imgBg, output, outBg, range, vox, values, wpc, calls>>

Next ==
  \/ ReplacePadding
  \/ NormalizeImages
  \/ ShiftPositive
  \/ InitOutput
  \/ \E w \in Workers : WorkerGather(w)
  \/ \E w \in Workers : WorkerCall(w)
  \/ ReplaceNaN
  \/ WriteOutput

Spec == Init /\ [][Next]_vars

SpecNorm == InitNorm /\ [][Next]_vars

\* the pipeline up to the shift to positive values, every mode and every
\* normalization
InitPre ==
  /\ mode \in AggregationModes
  /\ normalization \in NormalizationModes
  /\ alpha = 0
  /\ InitState

NextPre ==
  \/ ReplacePadding
  \/ NormalizeImages
  \/ ShiftPositive

SpecPre == InitPre /\ [][NextPre]_vars

\* ------------------------------------------- the measures of dispersion
\* GiniCoefficient and EntropyIndex called through eval._Function on sample
\* arrays of any content: one call in a run, its result stored at a voxel
SampleValues == {Int2Num(k) : k \in {-FloatAbsorbLimit, -1, 0, 1, 2}}

SampleArrays == UNION {[1..n -> SampleValues] : n \in Images}

AllEqual(s) == \A i, j \in 1..Len(s) : Eq(s[i], s[j])

AllPositive(s) == \A i \in 1..Len(s) : Less(Zero, s[i])

\* alpha of the entropy index: the three dedicated branches and the general one
FunAlphaValues == 0..3

InitFun ==
  /\ pc = "samples"
  /\ mode \in DispersionModes
  /\ alpha \in (IF mode = "AM_EntropyIndex" THEN FunAlphaValues ELSE {0})
  /\ normalization = "Normalization_None"
  /\ padding = NaN
  /\ intersection = FALSE
  /\ input = [i \in Images |-> [v \in Voxels |-> Zero]]
  /\ images = input
  /\ imgBg = NaN
  /\ output = [v \in Voxels |-> Zero]
  /\ outBg = Zero
  /\ range = [w \in Workers |-> <<0, 0>>]
  /\ vox = [w \in Workers |-> 0]
  /\ values = [w \in Workers |-> <<>>]
  /\ wpc = [w \in Workers |-> "idle"]
  /\ calls = [v \in Voxels |-> <<>>]

\* one call of the aggregation function, outside the parallel loop (worker 0).
\* Unequal samples that are shifted are left to the branches whose powers
\* of 1e-6 stay within the integer range of the checker.
CallFunction(v) ==
  /\ pc = "samples"
  /\ pc' = "returned"
  /\ \E s \in SampleArrays :
       /\ AllEqual(s) \/ AllPositive(s) \/ mode = "AM_Gini" \/ alpha < 2
       /\ LET r == Function(mode, alpha, s)
          IN /\ ~r.throws
             /\ output' = [output EXCEPT ![v] = r.val]
             /\ calls' = [calls EXCEPT ![v] =
                            <<[worker |-> 0, args |-> s, val |-> r.val]>>]
  /\ UNCHANGED <<config, images, imgBg, outBg, range, vox, values, wpc>>

NextFun == \E v \in Voxels : CallFunction(v)

SpecFun == InitFun /\ [][NextFun]_vars

\* ================================================================ claims
PaddingSet == ~IsNaN(padding)

\* the images after the padding value is replaced by NaN
PaddedInput == [i \in Images |-> [v \in Voxels |-> PadVoxel(input[i][v], padding)]]

\* the state in which parallel_for starts
AtStart ==
  /\ pc = "parallel"
  /\ \A w \in Workers : vox[w] = range[w][1] + 1 /\ wpc[w] # "call"

AfterParallel == pc \in {"replaced", "written"}

SomeForeground(v) == \E i \in Images : IsForeground(images[i][v], imgBg)
SomeBackground(v) == \E i \in Images : IsBackground(images[i][v], imgBg)

\* C1: with a padding value and the union policy, the output voxel is
\* background when the aggregation starts iff every image is background
\* there, and every voxel at which some image is foreground is aggregated.
C1_Union ==
  (PaddingSet /\ ~intersection) =>
    /\ AtStart => \A v \in Voxels :
         IsBackground(output[v], outBg) <=> ~SomeForeground(v)
    /\ AfterParallel => \A v \in Voxels :
         SomeForeground(v) => Len(calls[v]) = 1

C1_Witness ==
  /\ pc = "replaced"
  /\ PaddingSet /\ ~intersection
  /\ \E v \in Voxels : SomeForeground(v) /\ SomeBackground(v) /\ Len(calls[v]) = 1
  /\ \E v \in Voxels : ~SomeForeground(v) /\ calls[v] = <<>>

\* C2: with a padding value and the intersection policy, the output voxel
\* is background when the aggregation starts iff some image is background
\* there, and such a voxel is never passed to the aggregation function.
C2_Intersection ==
  (PaddingSet /\ intersection) =>
    /\ AtStart => \A v \in Voxels :
         IsBackground(output[v], outBg) <=> SomeBackground(v)
    /\ pc \in {"parallel", "replaced", "written"} => \A v \in Voxels :
         SomeBackground(v) => calls[v] = <<>>

C2_Witness ==
  /\ pc = "replaced"
  /\ PaddingSet /\ intersection
  /\ \E v \in Voxels : SomeForeground(v) /\ SomeBackground(v) /\ calls[v] = <<>>
  /\ \E v \in Voxels : ~SomeBackground(v) /\ Len(calls[v]) = 1

\* C3: under the union policy the sample array handed to the aggregation
\* function holds values of foreground voxels only, never NaN and never the
\* 0 of a background voxel.
C3_UnionSamplesValid ==
  (PaddingSet /\ ~intersection) =>
    \A v \in Voxels : \A k \in 1..Len(calls[v]) : \A i \in Images :
      /\ ~IsNaN(calls[v][k].args[i])
      /\ IsForeground(images[i][v], imgBg)

C5_NoNaNInOutput ==
  AfterParallel => \A v \in Voxels : ~IsNaN(output[v])

\* C6: with a negative alpha the run stops before any image is normalized
\* or shifted and before any voxel is aggregated.
C6_EagerAlphaError ==
  alpha < 0 =>
    /\ images = PaddedInput \/ images = input
    /\ \A v \in Voxels : calls[v] = <<>>
    /\ ~AfterParallel

\* C7: when every voxel of every image equals the padding value, the run
\* fails and writes no output, whatever the mode.
C7_AllBackgroundFails ==
  (PaddingSet /\ \A i \in Images : \A v \in Voxels : Eq(input[i][v], padding))
    => pc # "written"

\* population variance, for the other convention of the standard deviation
PopVarOf(s) ==
  LET m == MeanOf(s)
      sq == [i \in 1..Len(s) |-> Mul(Sub(s[i], m), Sub(s[i], m))]
  IN Div(SumSeq(sq), Int2Num(Len(s)))

\* C8: ZScore normalization of an image without background and with
\* nonzero variance leaves it with mean 0 and standard deviation 1.
C8_ZScoreStandardizes ==
  (pc = "normalized" /\ normalization = "Normalization_ZScore") =>
    \A i \in Images :
      ((\A v \in Voxels : ~IsNaN(PaddedInput[i][v])) /\ VarOf(PaddedInput[i]) # Zero)
        => /\ MeanOf(images[i]) = Zero
           /\ VarOf(images[i]) = One \/ PopVarOf(images[i]) = One

\* C9: no step of the parallel region changes a voxel of an input image;
\* the images change only before the region starts.
C9_InputsReadOnly ==
  [][(images' # images \/ imgBg' # imgBg) => pc \in {"read", "padded", "normalized"}]_vars

C9_Witness ==
  /\ pc = "parallel"
  /\ images # PaddedInput
  /\ \E w \in Workers :
       /\ wpc[w] = "loop"
       /\ vox[w] > range[w][1] + 1
       /\ Len(calls[vox[w] - 1]) = 1
       /\ values[w] # calls[vox[w] - 1][1].args

\* C10: every output voxel is written at most once, by the worker that owns
\* it, and the value stored is the aggregation function applied to the
\* values of the images at that voxel, in the order of the images, whatever
\* the sample array held before.
C10_DisjointAndExact ==
  \A v \in Voxels :
    /\ Len(calls[v]) <= 1
    /\ Len(calls[v]) = 1 =>
         LET c == calls[v][1]
             column == [i \in Images |-> images[i][v]]
         IN /\ range[c.worker][1] < v /\ v <= range[c.worker][2]
            /\ c.args = column
            /\ c.val = Function(mode, alpha, column).val
            /\ pc = "parallel" => output[v] = c.val

C10_Witness ==
  /\ pc = "parallel"
  /\ mode = "AM_Gini"
  /\ \E v \in Voxels :
       /\ v + 1 \in Voxels
       /\ Len(calls[v]) = 1 /\ Len(calls[v + 1]) = 1
       /\ calls[v][1].worker = calls[v + 1][1].worker
       /\ GiniSamples(calls[v][1].args) # calls[v][1].args
       /\ calls[v + 1][1].args # calls[v][1].args

\* C11: for a sample array whose entries are all equal, GiniCoefficient
\* returns 0 and EntropyIndex returns 0 for every alpha >= 0.
C11_EqualSamplesZero ==
  \A v \in Voxels : \A k \in 1..Len(calls[v]) :
    (mode \in DispersionModes /\ alpha >= 0 /\ AllEqual(calls[v][k].args))
      => calls[v][k].val = Zero

\* C12: from the replacement of the padding value to the shift to positive
\* values, a voxel is foreground iff it was foreground after the padding
\* value was replaced, and no foreground voxel becomes NaN, whatever the
\* normalization.
C12_ClassificationPreserved ==
  pc \in {"padded", "normalized", "shifted"} =>
    \A i \in Images : \A v \in Voxels :
      LET was == IsForeground(PaddedInput[i][v], NaN)
      IN /\ IsForeground(images[i][v], imgBg) <=> was
         /\ was => ~IsNaN(images[i][v])

====
